---- MODULE Spec2Model ----
(***************************************************************************)
(* A model of package_embedder.py: the Locator (package_location), the     *)
(* import scanner (get_packages), the embedder (embed_package) and the     *)
(* copy_contents routine that embed_package writes into its output.        *)
(*                                                                         *)
(* Text is modelled as a sequence of atoms (a Str): an atom is a keyword,  *)
(* an identifier, or one of the characters " ", "\t", ".", "/".  A path is *)
(* a sequence of segments, each a Str; an absolute path starts with the    *)
(* segment Root.  Bytes are sequences of numbers 0..255.                   *)
(***************************************************************************)
EXTENDS Integers, Sequences, FiniteSets, TLC

VARIABLES
    syspath,    \* sys.path: a sequence of paths
    fs,         \* the files on disk: a function from absolute paths to bytes
    infile,     \* the text of the input script
    argv,       \* the arguments of the embed_package call to come
    modules,    \* sys.modules: the set of loaded module names
    out,        \* the output file of embed_package: NoFile or its lines
    last        \* the last call made: its arguments, pre-state and result

vars == <<syspath, fs, infile, argv, modules, out, last>>

----------------------------------------------------------------------------
(* Bounds of the model *)

\* The longest search path an initial state draws.
MaxPath == 2

----------------------------------------------------------------------------
(* Strings and paths *)

S(a) == <<a>>

Root == S("/")

P2(a, b) == <<Root, S(a), b>>

\* str.startswith
StartsWith(s, pre) ==
    /\ Len(s) >= Len(pre)
    /\ SubSeq(s, 1, Len(pre)) = pre

\* str.split(sep) for a one-character separator: every occurrence of sep
\* ends a part, so n separators give n + 1 parts, empty ones included
RECURSIVE SplitAcc(_, _, _)
SplitAcc(s, sep, cur) ==
    IF s = <<>> THEN <<cur>>
    ELSE IF Head(s) = sep THEN <<cur>> \o SplitAcc(Tail(s), sep, <<>>)
    ELSE SplitAcc(Tail(s), sep, Append(cur, Head(s)))

Split(s, sep) == SplitAcc(s, sep, <<>>)

\* the index of the last "." of a name, 0 when it has none (str.rfind + 1)
RFindDot(name) ==
    LET dots == {i \in 1..Len(name) : name[i] = "."}
    IN IF dots = {} THEN 0 ELSE CHOOSE i \in dots : \A j \in dots : j <= i

\* pathlib's PurePath.name: the final segment, "" for an empty path or the root
PathName(path) ==
    IF path = <<>> \/ path = <<Root>> THEN <<>> ELSE path[Len(path)]

\* pathlib's PurePath.stem with the name computed already: the name without
\* its last suffix; a leading or a trailing dot starts no suffix
StemOfName(name) ==
    LET i == RFindDot(name)
    IN IF 1 < i /\ i < Len(name) THEN SubSeq(name, 1, i - 1) ELSE name

Stem(path) == StemOfName(PathName(path))

IsAbs(path) == Len(path) > 0 /\ path[1] = Root

\* Path.cwd()
Cwd == <<Root, S("home"), S("proj")>>

\* Path.resolve() (no symbolic links, no ".." segments in the model)
Resolve(path) == IF IsAbs(path) THEN path ELSE Cwd \o path

IsPrefix(p, q) == Len(p) <= Len(q) /\ SubSeq(q, 1, Len(p)) = p

\* Path.is_file / Path.is_dir on a disk f; a directory exists when a file
\* lies below it
IsFileIn(f, path) == Resolve(path) \in DOMAIN f

IsDirIn(f, path) ==
    \E q \in DOMAIN f : IsPrefix(Resolve(path), q) /\ Len(q) > Len(Resolve(path))

PyName(package) == package \o <<".", "py">>

InitPy == <<"__init__", ".", "py">>

----------------------------------------------------------------------------
(* package_location *)

None == [found |-> FALSE, path |-> <<>>]

Some(path) == [found |-> TRUE, path |-> path]

\* line 20
Qualifies(path) ==
    \/ Stem(path) = S("site-packages")
    \/ Resolve(path) = Resolve(Cwd)

\* lines 21-25 for one search-path entry: None when the entry yields nothing
ProbeEntry(f, path, package) ==
    IF IsDirIn(f, Append(path, package))
          /\ IsFileIn(f, Append(Append(path, package), InitPy))
    THEN Some(Append(path, package))
    ELSE IF IsFileIn(f, Append(path, PyName(package)))
    THEN Some(Append(path, PyName(package)))
    ELSE None

RECURSIVE LocateFrom(_, _, _, _)
LocateFrom(sp, f, package, i) ==
    IF i > Len(sp) THEN None
    ELSE IF Qualifies(sp[i]) /\ ProbeEntry(f, sp[i], package).found
    THEN ProbeEntry(f, sp[i], package)
    ELSE LocateFrom(sp, f, package, i + 1)

package_location_in(sp, f, package) == LocateFrom(sp, f, package, 1)

package_location(package) == package_location_in(syspath, fs, package)

----------------------------------------------------------------------------
(* zlib.compress / zlib.decompress and base64.b64encode / b64decode        *)
(*                                                                         *)
(* For the short inputs of the model zlib.compress writes one final        *)
(* deflate block with the fixed Huffman code and only literals (nothing    *)
(* repeats far enough to be matched): the header 78 9C, the block bits     *)
(* packed low bit first, and the Adler-32 checksum, high byte first.       *)

RECURSIVE Pow2(_)
Pow2(n) == IF n = 0 THEN 1 ELSE 2 * Pow2(n - 1)

\* the n bits of v, high bit first (how a Huffman code is written)
CodeBits(v, n) == [i \in 1..n |-> (v \div Pow2(n - i)) % 2]

\* the fixed Huffman code of a literal byte
LiteralCode(b) == IF b < 144 THEN CodeBits(48 + b, 8) ELSE CodeBits(400 + (b - 144), 9)

EndOfBlock == CodeBits(0, 7)

\* BFINAL = 1, BTYPE = 01 (fixed Huffman), low bit first
BlockHeader == <<1, 1, 0>>

RECURSIVE LiteralBits(_)
LiteralBits(bytes) ==
    IF bytes = <<>> THEN <<>> ELSE LiteralCode(Head(bytes)) \o LiteralBits(Tail(bytes))

\* bits packed into bytes, the first bit the lowest, the last byte zero-padded
RECURSIVE PackBits(_)
PackBits(bits) ==
    IF bits = <<>> THEN <<>>
    ELSE LET n == IF Len(bits) < 8 THEN Len(bits) ELSE 8
             byte[i \in 0..n] == IF i = 0 THEN 0 ELSE byte[i - 1] + bits[i] * Pow2(i - 1)
         IN <<byte[n]>> \o PackBits(SubSeq(bits, n + 1, Len(bits)))

RECURSIVE AdlerSumA(_, _)
AdlerSumA(bytes, k) == IF k = 0 THEN 1 ELSE (AdlerSumA(bytes, k - 1) + bytes[k]) % 65521

RECURSIVE AdlerSumB(_, _)
AdlerSumB(bytes, k) ==
    IF k = 0 THEN 0 ELSE (AdlerSumB(bytes, k - 1) + AdlerSumA(bytes, k)) % 65521

\* the four bytes of the Adler-32 checksum, high byte first
Adler32(bytes) ==
    LET a == AdlerSumA(bytes, Len(bytes))
        b == AdlerSumB(bytes, Len(bytes))
    IN <<b \div 256, b % 256, a \div 256, a % 256>>

compress(bytes) ==
    <<120, 156>> \o PackBits(BlockHeader \o LiteralBits(bytes) \o EndOfBlock)
        \o Adler32(bytes)

\* the bits of bytes, the lowest bit of each byte first
RECURSIVE UnpackBits(_)
UnpackBits(bytes) ==
    IF bytes = <<>> THEN <<>>
    ELSE [i \in 1..8 |-> (Head(bytes) \div Pow2(i - 1)) % 2] \o UnpackBits(Tail(bytes))

\* the value of bits pos..pos+n-1 read high bit first; -1 past the end
CodeAt(bits, pos, n) ==
    IF pos + n - 1 > Len(bits) THEN -1
    ELSE LET v[i \in 0..n] == IF i = 0 THEN 0 ELSE 2 * v[i - 1] + bits[pos + i - 1]
         IN v[n]

\* the literals of a fixed-Huffman block from bit pos to its end-of-block
\* code; Corrupt for any other code or a missing end
Corrupt == <<-1>>

RECURSIVE InflateFrom(_, _, _)
InflateFrom(bits, pos, acc) ==
    IF CodeAt(bits, pos, 7) = 0 THEN acc
    ELSE IF CodeAt(bits, pos, 8) >= 48 /\ CodeAt(bits, pos, 8) <= 191
    THEN InflateFrom(bits, pos + 8, Append(acc, CodeAt(bits, pos, 8) - 48))
    ELSE IF CodeAt(bits, pos, 9) >= 400
    THEN InflateFrom(bits, pos + 9, Append(acc, CodeAt(bits, pos, 9) - 400 + 144))
    ELSE Corrupt

decompress(z) ==
    IF Len(z) < 8 \/ SubSeq(z, 1, 2) # <<120, 156>> THEN Corrupt
    ELSE LET bits == UnpackBits(SubSeq(z, 3, Len(z) - 4))
             data == IF SubSeq(bits, 1, 3) = BlockHeader
                     THEN InflateFrom(bits, 4, <<>>) ELSE Corrupt
         IN IF data # Corrupt /\ Adler32(data) = SubSeq(z, Len(z) - 3, Len(z))
            THEN data ELSE Corrupt

B64Alphabet ==
    <<"A", "B", "C", "D", "E", "F", "G", "H", "I", "J", "K", "L", "M",
      "N", "O", "P", "Q", "R", "S", "T", "U", "V", "W", "X", "Y", "Z",
      "a", "b", "c", "d", "e", "f", "g", "h", "i", "j", "k", "l", "m",
      "n", "o", "p", "q", "r", "s", "t", "u", "v", "w", "x", "y", "z",
      "0", "1", "2", "3", "4", "5", "6", "7", "8", "9", "+", "/">>

B64Char(v) == B64Alphabet[v + 1]

B64Value(c) == (CHOOSE i \in 1..64 : B64Alphabet[i] = c) - 1

\* three bytes give four characters; one or two last bytes give two or three
\* characters and "=" padding
RECURSIVE b64encode(_)
b64encode(bytes) ==
    IF bytes = <<>> THEN <<>>
    ELSE IF Len(bytes) = 1
    THEN <<B64Char(bytes[1] \div 4), B64Char((bytes[1] % 4) * 16), "=", "=">>
    ELSE IF Len(bytes) = 2
    THEN <<B64Char(bytes[1] \div 4),
           B64Char((bytes[1] % 4) * 16 + bytes[2] \div 16),
           B64Char((bytes[2] % 16) * 4), "=">>
    ELSE <<B64Char(bytes[1] \div 4),
           B64Char((bytes[1] % 4) * 16 + bytes[2] \div 16),
           B64Char((bytes[2] % 16) * 4 + bytes[3] \div 64),
           B64Char(bytes[3] % 64)>> \o b64encode(SubSeq(bytes, 4, Len(bytes)))

RECURSIVE b64decode(_)
b64decode(text) ==
    IF Len(text) < 4 THEN <<>>
    ELSE LET v1 == B64Value(text[1])
             v2 == B64Value(text[2])
         IN IF text[3] = "=" THEN <<v1 * 4 + v2 \div 16>>
            ELSE IF text[4] = "="
            THEN <<v1 * 4 + v2 \div 16, (v2 % 16) * 16 + B64Value(text[3]) \div 4>>
            ELSE <<v1 * 4 + v2 \div 16,
                   (v2 % 16) * 16 + B64Value(text[3]) \div 4,
                   (B64Value(text[3]) % 4) * 64 + B64Value(text[4])>>
                     \o b64decode(SubSeq(text, 5, Len(text)))

\* line 147: base64.b64encode(zlib.compress(fr))
EncodeBlob(bytes) == b64encode(compress(bytes))

\* line 114: zlib.decompress(base64.b64decode(contents))
DecodeBlob(contents) == decompress(b64decode(contents))

----------------------------------------------------------------------------
(* embed_package *)

\* The lines of the output file, one record for each print of the code (the
\* three header comments and the blank line of lines 88-91 are one record,
\* the routine of lines 92-118 is one record)
TextLine(text) == [kind |-> "text", text |-> text, flag |-> FALSE, names |-> <<>>]

HeaderLines(embedded) ==
    [kind |-> "header", text |-> <<>>, flag |-> FALSE, names |-> embedded]

RoutineLines == [kind |-> "def", text |-> <<>>, flag |-> FALSE, names |-> <<>>]

CallLine(package, prefer_installed) ==
    [kind |-> "call", text |-> package, flag |-> prefer_installed, names |-> <<>>]

EntryLine(file, contents) ==
    [kind |-> "entry", text |-> file, flag |-> FALSE, names |-> contents]

EndCallLine == [kind |-> "endcall", text |-> <<>>, flag |-> FALSE, names |-> <<>>]

DelLine == [kind |-> "del", text |-> <<>>, flag |-> FALSE, names |-> <<>>]

BlankLine == [kind |-> "blank", text |-> <<>>, flag |-> FALSE, names |-> <<>>]

\* line 70
IsShebang(line) == StartsWith(line, <<"#!">>)

\* line 121
IsFuture(line) == StartsWith(line, <<"from", " ", "__future__", " ", "import">>)

\* an argument that is a scalar or a tuple/list
Scalar(v) == [list |-> FALSE, v |-> <<v>>]

List(v) == [list |-> TRUE, v |-> v]

\* lines 74-80: a scalar package is a list of one, a scalar flag is repeated
PackagesOf(arg) == arg.v

FlagsOf(arg, n) == IF arg.list THEN arg.v ELSE [i \in 1..n |-> arg.v[1]]

\* PurePath.as_posix of a relative path: its segments joined with "/"
RECURSIVE AsPosix(_)
AsPosix(path) ==
    IF path = <<>> THEN <<>>
    ELSE IF Len(path) = 1 THEN path[1]
    ELSE path[1] \o <<"/">> \o AsPosix(Tail(path))

\* fnmatch of a name against "*.py" and against "*.*"
MatchesPy(name) ==
    Len(name) >= 2 /\ SubSeq(name, Len(name) - 1, Len(name)) = <<".", "py">>

MatchesDotted(name) == \E i \in 1..Len(name) : name[i] = "."

\* every file and every directory below dir
AllNodes(f) == UNION {{SubSeq(q, 1, k) : k \in 1..Len(q)} : q \in DOMAIN f}

NodesBelow(f, dir) == {q \in AllNodes(f) : IsPrefix(dir, q) /\ Len(q) > Len(dir)}

\* line 136: dir.rglob(pattern), in the order the directory listing gives
Rglob(f, dir, py_files_only, listing) ==
    SelectSeq(listing,
              LAMBDA q : /\ q \in NodesBelow(f, Resolve(dir))
                         /\ IF py_files_only THEN MatchesPy(PathName(q))
                                             ELSE MatchesDotted(PathName(q)))

\* lines 133-136
FilesOf(f, dir, py_files_only, listing) ==
    IF IsFileIn(f, dir) THEN <<Resolve(dir)>>
    ELSE Rglob(f, dir, py_files_only, listing)

\* lines 138-141
FileRel(f, dir, file) ==
    IF IsFileIn(f, dir) THEN <<PathName(file)>>
    ELSE SubSeq(file, Len(Resolve(dir)), Len(file))

\* lines 137-149: the entries of one package, up to the first path that
\* cannot be opened (rglob also yields directories and open() raises on one)
RECURSIVE EntriesOf(_, _, _, _)
EntriesOf(f, dir, files, acc) ==
    IF files = <<>> THEN [lines |-> acc, status |-> "ok"]
    ELSE LET file == Head(files)
             filerel == FileRel(f, dir, file)
         IN IF \E i \in 1..Len(filerel) : filerel[i] = S("__pycache__")
            THEN EntriesOf(f, dir, Tail(files), acc)
            ELSE IF file \notin DOMAIN f
            THEN [lines |-> acc, status |-> "IsADirectoryError"]
            ELSE EntriesOf(f, dir, Tail(files),
                           Append(acc, EntryLine(AsPosix(filerel), EncodeBlob(f[file]))))

\* lines 125-150: the blocks of packages i.., appended to acc
RECURSIVE BlocksFrom(_, _, _, _, _, _, _, _)
BlocksFrom(sp, f, packages, pis, pfos, listing, i, acc) ==
    IF i > Len(packages) THEN [lines |-> acc, status |-> "ok"]
    ELSE LET dir == package_location_in(sp, f, packages[i])
         IN IF ~dir.found
            THEN BlocksFrom(sp, f, packages, pis, pfos, listing, i + 1, acc)
            ELSE LET es == EntriesOf(f, dir.path,
                                     FilesOf(f, dir.path, pfos[i], listing),
                                     Append(acc, CallLine(packages[i], pis[i])))
                 IN IF es.status # "ok" THEN es
                    ELSE BlocksFrom(sp, f, packages, pis, pfos, listing, i + 1,
                                    Append(es.lines, EndCallLine))

TextLines(lines) == [i \in 1..Len(lines) |-> TextLine(lines[i])]

\* lines 120-123: the first future line is printed, and the statement that
\* removes it from inlines raises AttributeError (None.menatmental)
FirstFuture(inlines) ==
    LET fut == {i \in 1..Len(inlines) : IsFuture(inlines[i])}
    IN IF fut = {} THEN 0 ELSE CHOOSE i \in fut : \A j \in fut : i <= j

\* lines 66-156: what the call writes to outfile, how it ends, what it returns
embed_package(text, arg, sp, f, listing) ==
    LET inlines0 == Split(text, "\n")
        shebang == IsShebang(inlines0[1])
        first == IF shebang THEN <<TextLine(inlines0[1])>> ELSE <<>>
        inlines == IF shebang THEN Tail(inlines0) ELSE inlines0
        packages == PackagesOf(arg.package)
        n == Len(packages)
        prefer_installeds == FlagsOf(arg.prefer_installed, n)
        py_files_onlys == FlagsOf(arg.py_files_only, n)
        embedded_packages ==
            SelectSeq(packages, LAMBDA q : package_location_in(sp, f, q).found)
        top == first \o <<HeaderLines(embedded_packages), RoutineLines>>
        blocks == BlocksFrom(sp, f, packages, prefer_installeds, py_files_onlys,
                             listing, 1, top)
    IN IF Len(prefer_installeds) # n \/ Len(py_files_onlys) # n
       THEN [lines |-> first, status |-> "ValueError", returned |-> <<>>]
       ELSE IF FirstFuture(inlines) # 0
       THEN [lines |-> Append(top, TextLine(inlines[FirstFuture(inlines)])),
             status |-> "AttributeError", returned |-> <<>>]
       ELSE IF blocks.status # "ok"
       THEN [lines |-> blocks.lines, status |-> blocks.status, returned |-> <<>>]
       ELSE [lines |-> blocks.lines \o <<DelLine, BlankLine>> \o TextLines(inlines),
             status |-> "returned", returned |-> embedded_packages]

----------------------------------------------------------------------------
(* copy_contents, the routine of the generated script (lines 92-118) *)

\* tempfile.gettempdir()
TempDir == <<Root, S("tmp")>>

\* line 108
TargetDir(package) == Append(TempDir, <<"embedded_">> \o package)

\* lines 104-107 for one search-path entry, with the mutant that looks only
\* into the entries the Locator searches
FoundInQualifying(f, dir, package) ==
    /\ Qualifies(dir)
    /\ \/ /\ IsDirIn(f, Append(dir, package))
          /\ IsFileIn(f, Append(Append(dir, package), InitPy))
       \/ IsFileIn(f, Append(dir, PyName(package)))

FoundIn(f, dir, package) ==
    \/ /\ IsDirIn(f, Append(dir, package))
       /\ IsFileIn(f, Append(Append(dir, package), InitPy))
    \/ IsFileIn(f, Append(dir, PyName(package)))

\* lines 102-107
InstalledCopy(sp, f, package) == \E i \in 1..Len(sp) : FoundIn(f, sp[i], package)

\* target_dir / file: the segments of a posix path
PathOfPosix(file) == Split(file, "/")

\* lines 109-110: shutil.rmtree(target_dir, ignore_errors=True) removes the
\* files below target_dir, except those (survive) whose removal fails; with
\* the mutant that removes nothing
RmtreeSkipped(f, target, survive) == f

Rmtree(f, target, survive) ==
    [q \in {x \in DOMAIN f : ~IsPrefix(target, x) \/ x \in survive} |-> f[q]]

\* lines 113-114
WriteFile(f, path, bytes) ==
    [q \in DOMAIN f \cup {path} |-> IF q = path THEN bytes ELSE f[q]]

\* lines 111-114
RECURSIVE WriteAll(_, _, _)
WriteAll(f, target, filecontents) ==
    IF filecontents = <<>> THEN f
    ELSE WriteAll(WriteFile(f, target \o PathOfPosix(filecontents[1][1]),
                            DecodeBlob(filecontents[1][2])),
                  target, Tail(filecontents))

\* lines 99-100, with the mutant that looks at sys.modules only for a
\* package that prefers its installed copy
SkipsLoadedWhenPreferred(mods, package, prefer_installed) ==
    prefer_installed /\ package \in mods

SkipsLoaded(mods, package, prefer_installed) == package \in mods

\* lines 115-118, with the mutant that always appends
AlwaysAppended(sp, target, prefer_installed) == Append(sp, target)

PathWith(sp, target, prefer_installed) ==
    IF prefer_installed THEN Append(sp, target) ELSE <<target>> \o sp

\* lines 99-118: the search path and the disk after the call
copy_contents(sp, f, mods, package, prefer_installed, filecontents, survive) ==
    IF SkipsLoaded(mods, package, prefer_installed)
    THEN [syspath |-> sp, fs |-> f, extracted |-> FALSE]
    ELSE IF prefer_installed /\ InstalledCopy(sp, f, package)
    THEN [syspath |-> sp, fs |-> f, extracted |-> FALSE]
    ELSE [syspath |-> PathWith(sp, TargetDir(package), prefer_installed),
          fs |-> WriteAll(IF IsDirIn(f, TargetDir(package))
                          THEN Rmtree(f, TargetDir(package), survive) ELSE f,
                          TargetDir(package), filecontents),
          extracted |-> TRUE]

----------------------------------------------------------------------------
(* The disks and search paths the specifications start from *)

Alpha == S("alpha")
Beta == S("beta")

\* The bytes of the sample files: short, all different
BytesInit == <<>>
BytesCore == <<97>>
BytesModule == <<97, 98>>
BytesData == <<0, 255>>
BytesNote == <<144>>
BytesCache == <<1>>
BytesUtil == <<98, 97, 99>>

\* A disk given as a set of <<path, bytes>> pairs with distinct paths
FsOf(pairs) ==
    [p \in {x[1] : x \in pairs} |-> (CHOOSE x \in pairs : x[1] = p)[2]]

NoFiles == FsOf({})

\* What a directory d may hold of a package: nothing, a single-file module,
\* a package directory, a directory without the __init__.py marker, and both
\* a directory and a single-file module
LayoutNames == {"none", "module", "package", "bare", "both", "bareboth"}

\* Package directories for the serializer: one with a subdirectory, one with
\* a file without an extension, a data file and a bytecode cache, one with a
\* subdirectory whose name has a dot
TreeNames == {"module", "tree", "rich", "dotted"}

ModuleFile(d, package) == {<<Append(d, PyName(package)), BytesModule>>}

PackageDir(d, package) ==
    {<<Append(Append(d, package), InitPy), BytesInit>>,
     <<Append(Append(d, package), <<"core", ".", "py">>), BytesCore>>}

BareDir(d, package) ==
    {<<Append(Append(d, package), <<"core", ".", "py">>), BytesCore>>}

In(d, package, name) == Append(Append(d, package), name)

In2(d, package, sub, name) == Append(Append(Append(d, package), sub), name)

TreeDir(d, package) ==
    {<<In(d, package, InitPy), BytesInit>>,
     <<In2(d, package, S("sub"), <<"util", ".", "py">>), BytesUtil>>}

RichDir(d, package) ==
    {<<In(d, package, InitPy), BytesInit>>,
     <<In(d, package, S("LICENSE")), BytesNote>>,
     <<In(d, package, <<"data", ".", "bin">>), BytesData>>,
     <<In2(d, package, S("__pycache__"), <<"core", ".", "pyc">>), BytesCache>>}

DottedDir(d, package) ==
    {<<In(d, package, InitPy), BytesInit>>,
     <<In2(d, package, <<"res", ".", "d">>, S("note")), BytesNote>>}

Layout(d, package, kind) ==
    CASE kind = "none" -> {}
      [] kind = "tree" -> TreeDir(d, package)
      [] kind = "rich" -> RichDir(d, package)
      [] kind = "dotted" -> DottedDir(d, package)
      [] kind = "module" -> ModuleFile(d, package)
      [] kind = "package" -> PackageDir(d, package)
      [] kind = "bare" -> BareDir(d, package)
      [] kind = "both" -> PackageDir(d, package) \cup ModuleFile(d, package)
      [] kind = "bareboth" -> BareDir(d, package) \cup ModuleFile(d, package)

\* Search-path entries: two site-packages directories (one with a suffix), a
\* standard-library directory, the working directory, and the empty entry ''
SitePackages == P2("usr", S("site-packages"))
SitePackagesBak == P2("usr", <<"site-packages", ".", "bak">>)
StdLib == P2("usr", S("lib"))
Relative == <<>>

DirPool == {SitePackages, SitePackagesBak, StdLib, Cwd, Relative}

SeqsUpTo(set, n) == UNION {[1..k -> set] : k \in 0..n}

Range(seq) == {seq[i] : i \in 1..Len(seq)}

----------------------------------------------------------------------------
(* Specification SpecLocate: package_location on every search path of up to *)
(* MaxPath entries whose directories hold every layout of package alpha     *)

NoCall == [op |-> "none"]

NoArgs == [op |-> "none"]

NoFile == [exists |-> FALSE, lines |-> <<>>]

InitLocate ==
    /\ syspath \in SeqsUpTo(DirPool, MaxPath)
    /\ \E lay \in [{Resolve(d) : d \in Range(syspath)} -> LayoutNames] :
          fs = FsOf(UNION {Layout(d, Alpha, lay[d]) : d \in DOMAIN lay})
    /\ infile = <<>>
    /\ argv = NoArgs
    /\ modules = {}
    /\ out = NoFile
    /\ last = NoCall

Locate(package) ==
    /\ last' = [op |-> "package_location", package |-> package,
                result |-> package_location(package)]
    /\ UNCHANGED <<syspath, fs, infile, argv, modules, out>>

NextLocate == \E package \in {Alpha, Beta} : Locate(package)

SpecLocate == InitLocate /\ [][NextLocate]_vars

----------------------------------------------------------------------------
(* get_packages *)

\* the bound on the number of lines of a scanned text
MaxLines == 3

IsSpace(a) == a \in {" ", "\t"}

\* str.strip(): leading and trailing whitespace removed
RECURSIVE LStrip(_)
LStrip(s) ==
    IF s # <<>> /\ IsSpace(Head(s)) THEN LStrip(Tail(s)) ELSE s

RECURSIVE RStrip(_)
RStrip(s) ==
    IF s # <<>> /\ IsSpace(s[Len(s)]) THEN RStrip(SubSeq(s, 1, Len(s) - 1)) ELSE s

Strip(s) == RStrip(LStrip(s))

\* str.split() without a separator: the runs of non-whitespace atoms
RECURSIVE SplitWsAcc(_, _)
SplitWsAcc(s, cur) ==
    IF s = <<>> THEN (IF cur = <<>> THEN <<>> ELSE <<cur>>)
    ELSE IF IsSpace(Head(s))
    THEN (IF cur = <<>> THEN <<>> ELSE <<cur>>) \o SplitWsAcc(Tail(s), <<>>)
    ELSE SplitWsAcc(Tail(s), Append(cur, Head(s)))

SplitWhitespace(s) == SplitWsAcc(s, <<>>)

\* line 173
exclude_packages == {S("numpy"), S("PIL"), S("scipy"), S("pandas"), S("cv2")}

\* line 178: "import" in line
ContainsImport(line) == \E i \in 1..Len(line) : line[i] = "import"

\* line 179, with the mutant that splits on whitespace runs
PartsByWhitespace(line) == SplitWhitespace(line) \o <<S("x"), S("x"), S("x")>>

Parts(line) == Split(Strip(line), " ") \o <<S("x"), S("x"), S("x")>>

\* line 180
IsImportLine(line) ==
    /\ ContainsImport(line)
    /\ \/ Parts(line)[1] = S("import")
       \/ Parts(line)[1] = S("from") /\ Parts(line)[3] = S("import")

\* line 181
PackageOf(line) == Split(Parts(line)[2], ".")[1]

\* str.lower of the atoms the names are made of
LowerAtom(a) ==
    CASE a = "Alpha" -> "alpha"
      [] a = "Beta" -> "beta"
      [] a = "PIL" -> "pil"
      [] OTHER -> a

\* the order of the lower-case atoms, as str compares them
AtomOrder == <<"alpha", "beta", "cv2", "numpy", "pandas", "pil", "scipy", "x">>

AtomRank(a) ==
    IF \E i \in 1..Len(AtomOrder) : AtomOrder[i] = LowerAtom(a)
    THEN CHOOSE i \in 1..Len(AtomOrder) : AtomOrder[i] = LowerAtom(a)
    ELSE 0

\* str.lower(a) < str.lower(b), atom by atom
RECURSIVE LowerLess(_, _)
LowerLess(a, b) ==
    IF b = <<>> THEN FALSE
    ELSE IF a = <<>> THEN TRUE
    ELSE IF AtomRank(Head(a)) # AtomRank(Head(b))
    THEN AtomRank(Head(a)) < AtomRank(Head(b))
    ELSE LowerLess(Tail(a), Tail(b))

\* sorted(result, key=str.lower): stable, so equal keys keep their order
RECURSIVE InsertSorted(_, _)
InsertSorted(sorted, x) ==
    IF sorted = <<>> THEN <<x>>
    ELSE IF LowerLess(x, Head(sorted)) THEN <<x>> \o sorted
    ELSE <<Head(sorted)>> \o InsertSorted(Tail(sorted), x)

RECURSIVE SortedByLower(_)
SortedByLower(seq) ==
    IF seq = <<>> THEN <<>>
    ELSE InsertSorted(SortedByLower(SubSeq(seq, 1, Len(seq) - 1)), seq[Len(seq)])

\* lines 177-183: the loop over the lines, result being the list so far
RECURSIVE ScanLines(_, _, _, _)
ScanLines(sp, f, lines, result) ==
    IF lines = <<>> THEN result
    ELSE LET line == Head(lines)
             package == PackageOf(line)
             take == /\ IsImportLine(line)
                     /\ package \notin Range(result)
                     /\ package \notin exclude_packages
                     /\ package_location_in(sp, f, package).found
         IN ScanLines(sp, f, Tail(lines),
                      IF take THEN Append(result, package) ELSE result)

\* lines 159-185, on the lines of infile
get_packages(lines) == SortedByLower(ScanLines(syspath, fs, lines, <<>>))

----------------------------------------------------------------------------
(* Specification SpecScan: get_packages on every text of up to MaxLines    *)
(* lines of ScanPool, on disks where different sets of names resolve       *)

\* f.read() of a file written with one "\n" between its lines
RECURSIVE JoinLines(_)
JoinLines(ls) ==
    IF ls = <<>> THEN <<>>
    ELSE IF Len(ls) = 1 THEN ls[1]
    ELSE ls[1] \o <<"\n">> \o JoinLines(Tail(ls))

ScanPool ==
    {<<"import", " ", "alpha">>,
     <<"from", " ", "beta", " ", "import", " ", "x">>,
     <<"import", " ", "numpy">>,
     <<"import", " ", " ", "beta">>,
     <<"import", "\t", "Alpha">>,
     <<" ", "\t", "import", " ", "Alpha", " ">>,
     <<"import", " ", "alpha", ".", "sub">>,
     <<"from", " ", ".", "beta", " ", "import", " ", "x">>,
     <<"from", " ", "beta", " ", " ", "import", " ", "x">>,
     <<"import">>,
     <<"x", " ", "=", " ", "1">>,
     <<>>}

ScanInstalled ==
    {a \cup b : a \in SUBSET {Alpha, Beta},
                b \in {{}, {S("Alpha"), S("x"), S("numpy")}}}

InitScan ==
    /\ syspath = <<StdLib, SitePackages>>
    /\ \E inst \in ScanInstalled :
          fs = FsOf(UNION {ModuleFile(SitePackages, n) : n \in inst})
    /\ \E ls \in SeqsUpTo(ScanPool, MaxLines) : infile = JoinLines(ls)
    /\ argv = NoArgs
    /\ modules = {}
    /\ out = NoFile
    /\ last = NoCall

\* lines 175-176: f.read().split("\n")
ReadLines(text) == Split(text, "\n")

Scan ==
    /\ last' = [op |-> "get_packages", result |-> get_packages(ReadLines(infile))]
    /\ UNCHANGED <<syspath, fs, infile, argv, modules, out>>

NextScan == Scan

SpecScan == InitScan /\ [][NextScan]_vars

----------------------------------------------------------------------------
(* Claim C7: what get_packages returns *)

Resolves(n) == package_location(n).found

\* the part of a token before its first "."
BeforeDot(tok) ==
    LET dots == {i \in 1..Len(tok) : tok[i] = "."}
    IN IF dots = {} THEN tok
       ELSE SubSeq(tok, 1, (CHOOSE i \in dots : \A j \in dots : i <= j) - 1)

NoDuplicates(seq) == \A i, j \in 1..Len(seq) : seq[i] = seq[j] => i = j

SortedCaseInsensitive(seq) ==
    \A i, j \in 1..Len(seq) : i < j => ~LowerLess(seq[j], seq[i])

\* the names of the claim as stated: lines tokenized on whitespace
WhitespaceNames(lines) ==
    {n \in {BeforeDot(SplitWhitespace(lines[k])[2]) :
               k \in {i \in 1..Len(lines) : Len(SplitWhitespace(lines[i])) >= 2}} :
        /\ \E k \in 1..Len(lines) :
              LET t == SplitWhitespace(lines[k])
              IN /\ Len(t) >= 2
                 /\ n = BeforeDot(t[2])
                 /\ \/ t[1] = S("import")
                    \/ Len(t) >= 3 /\ t[1] = S("from") /\ t[3] = S("import")
        /\ n \notin exclude_packages
        /\ Resolves(n)}

ExampleText ==
    JoinLines(<<<<"import", " ", "alpha">>,
                <<"from", " ", "beta", " ", "import", " ", "x">>,
                <<"import", " ", "numpy">>>>)

ExampleHolds ==
    (infile = ExampleText /\ Resolves(Alpha) /\ Resolves(Beta))
        => last.result = <<Alpha, Beta>>

\* C7 as stated: get_packages returns the duplicate-free, case-insensitively
\* sorted list of the unlisted, resolvable names that the import lines,
\* tokenized on whitespace, name; and [alpha, beta] for the example script.
C7_AsStated ==
    last.op = "get_packages" =>
        /\ NoDuplicates(last.result)
        /\ SortedCaseInsensitive(last.result)
        /\ Range(last.result) = WhitespaceNames(ReadLines(infile))
        /\ ExampleHolds

\* The tokens of a line as the code sees them: the line between its first and
\* its last non-whitespace atom, cut at every single " "; token k lies between
\* the (k-1)-th and the k-th space, and a token the line lacks reads "x"
Core(line) ==
    LET ink == {i \in 1..Len(line) : ~IsSpace(line[i])}
    IN IF ink = {} THEN <<>>
       ELSE SubSeq(line, CHOOSE i \in ink : \A j \in ink : i <= j,
                         CHOOSE i \in ink : \A j \in ink : j <= i)

SpaceAt(s, k) ==
    LET sp == {i \in 1..Len(s) : s[i] = " "}
    IN IF k = 0 THEN 0
       ELSE IF k > Cardinality(sp) THEN Len(s) + 1
       ELSE CHOOSE i \in sp : Cardinality({j \in sp : j < i}) = k - 1

TokenAt(line, k) ==
    LET s == Core(line)
        n == Cardinality({i \in 1..Len(s) : s[i] = " "}) + 1
    IN IF k > n THEN S("x")
       ELSE SubSeq(s, SpaceAt(s, k - 1) + 1, SpaceAt(s, k) - 1)

SingleSpaceNames(lines) ==
    {n \in {BeforeDot(TokenAt(lines[k], 2)) : k \in 1..Len(lines)} :
        /\ \E k \in 1..Len(lines) :
              /\ n = BeforeDot(TokenAt(lines[k], 2))
              /\ \/ TokenAt(lines[k], 1) = S("import")
                 \/ /\ TokenAt(lines[k], 1) = S("from")
                    /\ TokenAt(lines[k], 3) = S("import")
        /\ n \notin exclude_packages
        /\ Resolves(n)}

\* C7 as amended: the same list, the tokens of a line being the parts of the
\* stripped line between single " " characters (two adjacent spaces give an
\* empty token, a tab separates nothing) and a missing token reading "x".
C7_SingleSpaceTokens ==
    last.op = "get_packages" =>
        /\ NoDuplicates(last.result)
        /\ SortedCaseInsensitive(last.result)
        /\ Range(last.result) = SingleSpaceNames(ReadLines(infile))
        /\ ExampleHolds

\* The example script was scanned with alpha and beta resolvable, and a script
\* with a doubled space was scanned too.
C7_Witness ==
    /\ last.op = "get_packages"
    /\ infile = ExampleText
    /\ Resolves(Alpha) /\ Resolves(Beta) /\ Resolves(S("numpy"))
    /\ last.result = <<Alpha, Beta>>

----------------------------------------------------------------------------
(* Specification SpecEmbed: embed_package.  Package alpha is installed in  *)
(* site-packages in one of the layouts of TreeNames, beta is a single-file *)
(* module there, gamma lies only in the standard library directory, which  *)
(* the Locator does not search.                                            *)

\* the bound on the lines of the input script, and on the packages of a call
MaxBody == 3
MaxPkgs == 2

Gamma == S("gamma")

EmbedLinePool ==
    {<<"#!", "python">>,
     <<"x", " ", "=", " ", "1">>,
     <<>>,
     <<"from", " ", "__future__", " ", "import", " ", "division">>,
     <<"import", " ", "alpha">>}

Args(package, prefer_installed, py_files_only) ==
    [op |-> "embed", package |-> package,
     prefer_installed |-> prefer_installed, py_files_only |-> py_files_only]

PackageArgs ==
    {Scalar(Alpha), Scalar(Gamma)}
        \cup {List(v) : v \in SeqsUpTo({Alpha, Beta, Gamma}, MaxPkgs)}

FlagArgs ==
    {Scalar(TRUE), Scalar(FALSE)}
        \cup {List(v) : v \in SeqsUpTo(BOOLEAN, MaxPkgs + 1)}

\* every script with a few calls, and every call with a few scripts
ArgSamples ==
    {Args(Scalar(Alpha), Scalar(FALSE), Scalar(TRUE)),
     Args(List(<<Gamma, Alpha, Beta>>), List(<<TRUE, FALSE, TRUE>>), Scalar(FALSE)),
     Args(List(<<Alpha, Beta>>), List(<<TRUE, FALSE, TRUE>>), Scalar(TRUE)),
     Args(List(<<Gamma>>), Scalar(TRUE), List(<<TRUE>>))}

TextSamples ==
    {JoinLines(<<<<"#!", "python">>, <<"import", " ", "alpha">>, <<>>,
                 <<"x", " ", "=", " ", "1">>, <<>>>>),
     JoinLines(<<<<"import", " ", "alpha">>,
                 <<"from", " ", "__future__", " ", "import", " ", "division">>>>)}

OldFile == [exists |-> TRUE, lines |-> <<TextLine(S("old"))>>]

EmbedDisk(kind) ==
    FsOf(Layout(SitePackages, Alpha, kind)
            \cup ModuleFile(SitePackages, Beta)
            \cup ModuleFile(StdLib, Gamma))

EmbedStart ==
    /\ syspath = <<StdLib, SitePackages>>
    /\ modules = {}
    /\ out \in {NoFile, OldFile}
    /\ last = NoCall

\* every script of up to MaxBody lines, with the calls of ArgSamples
InitEmbedScripts ==
    /\ EmbedStart
    /\ fs = EmbedDisk("tree")
    /\ \E ls \in SeqsUpTo(EmbedLinePool, MaxBody) : infile = JoinLines(ls)
    /\ argv \in ArgSamples

\* every call with up to MaxPkgs packages and one flag list, with the scripts
\* of TextSamples, on every disk
InitEmbedCalls ==
    /\ EmbedStart
    /\ \E kind \in TreeNames : fs = EmbedDisk(kind)
    /\ infile \in TextSamples
    /\ \E p \in PackageArgs, flags \in FlagArgs :
          \/ argv = Args(p, flags, Scalar(TRUE))
          \/ argv = Args(p, Scalar(FALSE), flags)

Perms(set) ==
    {p \in [1..Cardinality(set) -> set] : \A i, j \in DOMAIN p : p[i] = p[j] => i = j}

\* what rglob can yield for the packages of a call
Listed(sp, f, packages) ==
    {q \in AllNodes(f) :
        /\ MatchesDotted(PathName(q))
        /\ \E i \in 1..Len(packages) :
              LET dir == package_location_in(sp, f, packages[i])
              IN dir.found /\ q \in NodesBelow(f, Resolve(dir.path))}

\* lines 62-156: open(outfile, "w") creates or empties the file, and what is
\* printed before the call ends, by a return or by an exception, stays in it
Embed ==
    /\ argv.op = "embed"
    /\ \E listing \in Perms(Listed(syspath, fs, PackagesOf(argv.package))) :
          LET r == embed_package(infile, argv, syspath, fs, listing)
          IN /\ out' = [exists |-> TRUE, lines |-> r.lines]
             /\ last' = [op |-> "embed_package", before |-> out,
                         status |-> r.status, returned |-> r.returned]
    /\ UNCHANGED <<syspath, fs, infile, argv, modules>>

NextEmbed == Embed

SpecEmbedScripts == InitEmbedScripts /\ [][NextEmbed]_vars

SpecEmbedCalls == InitEmbedCalls /\ [][NextEmbed]_vars

----------------------------------------------------------------------------
(* Claims C1, C2, C3, C6: embed_package *)

Requested == PackagesOf(argv.package)

FlagsMatch ==
    /\ argv.prefer_installed.list => Len(argv.prefer_installed.v) = Len(Requested)
    /\ argv.py_files_only.list => Len(argv.py_files_only.v) = Len(Requested)

\* C1 as stated: a call whose prefer_installed or py_files_only list differs
\* in length from the package list reports an error and leaves the output
\* file as it was: not created, or with its previous contents.
C1_NoOutputOnMismatch ==
    (last.op = "embed_package" /\ ~FlagsMatch) =>
        /\ last.status = "ValueError"
        /\ out = last.before

BodyOf(text) ==
    LET ls == Split(text, "\n")
    IN IF IsShebang(ls[1]) THEN Tail(ls) ELSE ls

ShebangOf(text) ==
    LET ls == Split(text, "\n")
    IN IF IsShebang(ls[1]) THEN <<TextLine(ls[1])>> ELSE <<>>

\* the future declarations of a body, each once, in the order they appear
FutureLines(body) ==
    SelectSeq([i \in 1..Len(body) |->
                  IF IsFuture(body[i]) /\ \A j \in 1..(i - 1) : body[j] # body[i]
                  THEN body[i] ELSE <<"\n">>],
              LAMBDA l : l # <<"\n">>)

OtherLines(body) == SelectSeq(body, LAMBDA l : ~IsFuture(l))

IndexOfKind(lines, kind) ==
    LET at == {i \in 1..Len(lines) : lines[i].kind = kind}
    IN IF at = {} THEN 0 ELSE CHOOSE i \in at : \A j \in at : i <= j

\* the sections of the output in the order of the claim; the blank line that
\* follows the del statement is allowed for
SectionsInOrder(lines, text) ==
    LET o == Len(ShebangOf(text))
        d == IndexOfKind(lines, "del")
        b == IF d < Len(lines) /\ lines[d + 1].kind = "blank" THEN d + 1 ELSE d
    IN /\ d > o + 2
       /\ SubSeq(lines, 1, o) = ShebangOf(text)
       /\ lines[o + 1].kind = "header"
       /\ lines[o + 2].kind = "def"
       /\ \A i \in (o + 3)..(d - 1) : lines[i].kind \in {"call", "entry", "endcall"}
       /\ SubSeq(lines, b + 1, Len(lines))
             = TextLines(FutureLines(BodyOf(text)) \o OtherLines(BodyOf(text)))

\* C2 as stated: for every input script, one with future declarations
\* included, the call completes and the output holds, in this order, the
\* interpreter directive, the header, the routine, the package blocks, the
\* del statement, each future declaration once, and the remaining body lines.
C2_SectionsInOrder ==
    (last.op = "embed_package" /\ FlagsMatch) =>
        /\ last.status = "returned"
        /\ SectionsInOrder(out.lines, infile)

ResolvedAt == {i \in 1..Len(Requested) : Resolves(Requested[i])}

\* the i-th smallest element of a set of numbers
NthOf(set, i) == CHOOSE x \in set : Cardinality({y \in set : y < x}) = i - 1

ResolvedSeq == [i \in 1..Cardinality(ResolvedAt) |-> NthOf(ResolvedAt, i)]

CallsOf(lines) == SelectSeq(lines, LAMBDA l : l.kind = "call")

HasUnresolved == \E i \in 1..Len(Requested) : ~Resolves(Requested[i])

\* C3 as stated: with flag lists of matching length a call with a package
\* that does not resolve succeeds; it returns the requested packages that resolve, in
\* order; the output holds one call per returned package, in order, with the
\* flag at that package's position in the request; and when nothing resolves
\* the output holds only the routine, its deletion and the body.
C3_UnresolvedDropped ==
    (last.op = "embed_package" /\ FlagsMatch /\ HasUnresolved) =>
        /\ last.status = "returned"
        /\ last.returned = [i \in DOMAIN ResolvedSeq |-> Requested[ResolvedSeq[i]]]
        /\ CallsOf(out.lines)
              = [i \in DOMAIN ResolvedSeq |->
                    CallLine(Requested[ResolvedSeq[i]],
                             FlagsOf(argv.prefer_installed, Len(Requested))[ResolvedSeq[i]])]
        /\ ResolvedAt = {} =>
              /\ last.returned = <<>>
              /\ out.lines = ShebangOf(infile)
                    \o <<HeaderLines(<<>>), RoutineLines, DelLine, BlankLine>>
                    \o TextLines(BodyOf(infile))

\* the entries of the k-th call of the output: the entry lines between the
\* k-th call line and the next endcall line
CallIndex(lines, k) ==
    NthOf({i \in 1..Len(lines) : lines[i].kind = "call"}, k)

EntriesOfCall(lines, k) ==
    LET c == CallIndex(lines, k)
        e == CHOOSE i \in (c + 1)..Len(lines) :
                 /\ lines[i].kind = "endcall"
                 /\ \A j \in (c + 1)..(i - 1) : lines[j].kind = "entry"
    IN SubSeq(lines, c + 1, e - 1)

\* the files the claim has embedded for a located package: the file itself,
\* or every file below the directory (the .py files when py_files_only) that
\* has no __pycache__ segment, named from the parent of the directory
FilesToEmbed(loc, py_files_only) ==
    IF IsFileIn(fs, loc) THEN {Resolve(loc)}
    ELSE {q \in DOMAIN fs :
            /\ IsPrefix(Resolve(loc), q)
            /\ py_files_only => MatchesPy(PathName(q))
            /\ \A i \in Len(Resolve(loc))..Len(q) : q[i] # S("__pycache__")}

NameToEmbed(loc, q) ==
    IF IsFileIn(fs, loc) THEN PathName(q)
    ELSE AsPosix(SubSeq(q, Len(Resolve(loc)), Len(q)))

\* C6 as stated: the entries of each call are, one for one, the files to
\* embed of its package, each under its relative name, and decoding then
\* decompressing an entry's blob gives the bytes of its file.
C6_EntriesAreTheFiles ==
    (last.op = "embed_package" /\ last.status = "returned") =>
        \A k \in 1..Len(CallsOf(out.lines)) :
            LET i == ResolvedSeq[k]
                loc == package_location(Requested[i]).path
                files == FilesToEmbed(loc, FlagsOf(argv.py_files_only, Len(Requested))[i])
                es == EntriesOfCall(out.lines, k)
            IN /\ Len(es) = Cardinality(files)
               /\ \A q \in files :
                     \E j \in 1..Len(es) :
                         /\ es[j].text = NameToEmbed(loc, q)
                         /\ DecodeBlob(es[j].names) = fs[q]

----------------------------------------------------------------------------
(* Specification SpecRun: the generated script calls copy_contents, and     *)
(* imports modules, on disks where alpha is installed in site-packages,    *)
(* only in the standard library directory, or nowhere.                     *)

\* the bound on the length of the search path
MaxRunPath == 4

\* the tables of three generated scripts: two versions of package alpha and
\* the single-file module beta
Entry(path, bytes) == <<AsPosix(path), EncodeBlob(bytes)>>

TableTree ==
    <<Entry(<<Alpha, InitPy>>, BytesInit),
      Entry(<<Alpha, S("sub"), <<"util", ".", "py">>>>, BytesUtil)>>

TableFlat ==
    <<Entry(<<Alpha, InitPy>>, BytesCore),
      Entry(<<Alpha, <<"core", ".", "py">>>>, BytesData)>>

TableModule == <<Entry(<<PyName(Beta)>>, BytesModule)>>

TablesOf(package) == IF package = Alpha THEN {TableTree, TableFlat} ELSE {TableModule}

RunDisks ==
    {NoFiles,
     FsOf(PackageDir(SitePackages, Alpha)),
     FsOf(ModuleFile(StdLib, Alpha)),
     FsOf(ModuleFile(StdLib, Beta) \cup BareDir(SitePackages, Alpha))}

InitRun ==
    /\ syspath = <<StdLib, SitePackages>>
    /\ fs \in RunDisks
    /\ infile = <<>>
    /\ argv = NoArgs
    /\ modules = {}
    /\ out = NoFile
    /\ last = NoCall

FilesBelow(f, dir) == {q \in DOMAIN f : IsPrefix(dir, q)}

CopyContents(package, prefer_installed, filecontents) ==
    /\ Len(syspath) < MaxRunPath
    /\ \E survive \in SUBSET FilesBelow(fs, TargetDir(package)) :
          LET r == copy_contents(syspath, fs, modules, package, prefer_installed,
                                 filecontents, survive)
          IN /\ syspath' = r.syspath
             /\ fs' = r.fs
             /\ last' = [op |-> "copy_contents", package |-> package,
                         prefer_installed |-> prefer_installed,
                         filecontents |-> filecontents,
                         before |-> [syspath |-> syspath, fs |-> fs],
                         loaded |-> package \in modules,
                         survive |-> IF r.extracted THEN survive ELSE {},
                         extracted |-> r.extracted]
    /\ UNCHANGED <<infile, argv, modules, out>>

\* the script imports a package that some search-path entry holds
Import(package) ==
    /\ package \notin modules
    /\ InstalledCopy(syspath, fs, package)
    /\ modules' = modules \cup {package}
    /\ last' = [op |-> "import", package |-> package]
    /\ UNCHANGED <<syspath, fs, infile, argv, out>>

NextRun ==
    \/ \E package \in {Alpha, Beta}, prefer_installed \in BOOLEAN :
          \E t \in TablesOf(package) : CopyContents(package, prefer_installed, t)
    \/ \E package \in {Alpha, Beta} : Import(package)

SpecRun == InitRun /\ [][NextRun]_vars

----------------------------------------------------------------------------
(* Claims C4, C5, C9, C10: the copy_contents routine *)

\* a search-path entry holds a package: a directory of that name with the
\* __init__.py marker, or a file name.py
HoldsPackage(f, dir, package) ==
    \/ Resolve(Append(Append(dir, package), InitPy)) \in DOMAIN f
    \/ Resolve(Append(dir, PyName(package))) \in DOMAIN f

OnSearchPath(sp, f, package) == \E i \in 1..Len(sp) : HoldsPackage(f, sp[i], package)

Scratch == TargetDir(last.package)

\* every file of the call's table lies in the scratch directory, decoded
TableExtracted ==
    \A k \in 1..Len(last.filecontents) :
        LET q == Scratch \o PathOfPosix(last.filecontents[k][1])
        IN q \in DOMAIN fs /\ fs[q] = DecodeBlob(last.filecontents[k][2])

TablePaths ==
    {Scratch \o PathOfPosix(last.filecontents[k][1]) : k \in 1..Len(last.filecontents)}

\* C4: for a package that is not loaded, a call that prefers the installed
\* copy and finds one on the search path changes neither the disk nor the
\* search path; a call that does not prefer it always extracts and puts the
\* scratch directory first, installed copy or not; a call that prefers it and
\* finds none extracts and puts the scratch directory last. An extracting
\* call adds one entry and keeps the others in their order.
C4_PreferencePrecedence ==
    (last.op = "copy_contents" /\ ~last.loaded) =>
        LET b == last.before
            installed == OnSearchPath(b.syspath, b.fs, last.package)
        IN /\ (last.prefer_installed /\ installed) =>
                 /\ fs = b.fs
                 /\ syspath = b.syspath
                 /\ ~last.extracted
           /\ ~last.prefer_installed =>
                 /\ TableExtracted
                 /\ syspath = <<Scratch>> \o b.syspath
           /\ (last.prefer_installed /\ ~installed) =>
                 /\ TableExtracted
                 /\ syspath = Append(b.syspath, Scratch)
           /\ last.extracted => Len(syspath) = Len(b.syspath) + 1

\* A call that does not prefer the installed copy extracted although a copy
\* is installed, and the scratch directory is the first entry.
C4_Witness ==
    /\ last.op = "copy_contents"
    /\ ~last.loaded
    /\ ~last.prefer_installed
    /\ OnSearchPath(last.before.syspath, last.before.fs, last.package)
    /\ last.extracted
    /\ syspath[1] = Scratch
    /\ TableExtracted

\* C5: a call for a package that is in sys.modules writes no file, removes
\* nothing and leaves the search path as it was, whatever its flag and table.
C5_LoadedIsNoOp ==
    (last.op = "copy_contents" /\ last.loaded) =>
        /\ fs = last.before.fs
        /\ syspath = last.before.syspath

\* A call for a loaded package that does not prefer the installed copy found
\* a scratch directory whose files differ from its table, and left it alone.
C5_Witness ==
    /\ last.op = "copy_contents"
    /\ last.loaded
    /\ ~last.prefer_installed
    /\ FilesBelow(fs, Scratch) # {}
    /\ FilesBelow(fs, Scratch) # TablePaths

\* C9 as stated: a call that prefers the installed copy, for a package that
\* is not loaded, skips the extraction exactly when the Locator's scan of the
\* qualifying entries finds the package.
C9_SkipsWhenLocatorFinds ==
    (last.op = "copy_contents" /\ ~last.loaded /\ last.prefer_installed) =>
        (~last.extracted
            <=> package_location_in(last.before.syspath, last.before.fs,
                                    last.package).found)

\* C9 as amended: such a call skips the extraction exactly when some entry of
\* the search path, qualifying for the Locator or not, holds the package.
C9_SkipsWhenAnyEntryHolds ==
    (last.op = "copy_contents" /\ ~last.loaded /\ last.prefer_installed) =>
        (~last.extracted
            <=> OnSearchPath(last.before.syspath, last.before.fs, last.package))

\* A call that prefers the installed copy skipped the extraction for a copy
\* that only an entry the Locator does not search holds.
C9_Witness ==
    /\ last.op = "copy_contents"
    /\ ~last.loaded
    /\ last.prefer_installed
    /\ ~last.extracted
    /\ ~package_location_in(last.before.syspath, last.before.fs, last.package).found
    /\ \E i \in 1..Len(last.before.syspath) :
          /\ ~Qualifies(last.before.syspath[i])
          /\ HoldsPackage(last.before.fs, last.before.syspath[i], last.package)

\* C10 as stated: after an extraction the scratch directory holds exactly
\* the files of the call's table, decoded, whatever the removal of the stale
\* directory did.
C10_ExactlyTheTable ==
    (last.op = "copy_contents" /\ last.extracted) =>
        /\ TableExtracted
        /\ FilesBelow(fs, Scratch) = TablePaths

\* C10 as amended: after an extraction the scratch directory holds the files
\* of the call's table, decoded, and besides them only the stale files whose
\* removal failed, unchanged; none when the removal succeeded.
C10_TableAndUnremovedFiles ==
    (last.op = "copy_contents" /\ last.extracted) =>
        /\ TableExtracted
        /\ FilesBelow(fs, Scratch) = TablePaths \cup last.survive
        /\ \A q \in last.survive \ TablePaths : fs[q] = last.before.fs[q]
        /\ last.survive = {} => FilesBelow(fs, Scratch) = TablePaths

\* An extraction found a stale scratch directory with a file that its table
\* does not list, the removal succeeded, and the directory holds the table.
C10_Witness ==
    /\ last.op = "copy_contents"
    /\ last.extracted
    /\ FilesBelow(last.before.fs, Scratch) \ TablePaths # {}
    /\ last.survive = {}
    /\ FilesBelow(fs, Scratch) = TablePaths

----------------------------------------------------------------------------
(* Claim C8: package_location *)

\* an entry qualifies, as the claim has it: its final segment is
\* site-packages, or it resolves to the working directory
FinalSegmentQualifies(path) ==
    \/ PathName(path) = S("site-packages")
    \/ Resolve(path) = Cwd

\* what the first of the entries `at` gives: the package directory if it is
\* there, else the single file
FirstOf(at, package) ==
    LET i == CHOOSE x \in at : \A y \in at : x <= y
    IN IF Resolve(Append(Append(syspath[i], package), InitPy)) \in DOMAIN fs
       THEN Append(syspath[i], package)
       ELSE Append(syspath[i], PyName(package))

\* C8 as stated: package_location finds a location exactly when an entry
\* whose final segment is site-packages, or that resolves to the working
\* directory, holds the package; the location is that of the first such
\* entry, the package directory before the single file.
C8_FirstQualifyingEntry ==
    last.op = "package_location" =>
        LET at == {i \in 1..Len(syspath) :
                      /\ FinalSegmentQualifies(syspath[i])
                      /\ HoldsPackage(fs, syspath[i], last.package)}
        IN /\ last.result.found <=> at # {}
           /\ at # {} => last.result.path = FirstOf(at, last.package)

\* C8 with the stem of the final segment (the segment without its last
\* suffix) in place of the segment: what line 20 compares.
C8_FirstEntryByStem ==
    last.op = "package_location" =>
        LET at == {i \in 1..Len(syspath) :
                      /\ \/ StemOfName(PathName(syspath[i])) = S("site-packages")
                         \/ Resolve(syspath[i]) = Cwd
                      /\ HoldsPackage(fs, syspath[i], last.package)}
        IN /\ last.result.found <=> at # {}
           /\ at # {} => last.result.path = FirstOf(at, last.package)

====
